---------------------------- MODULE Spec2Model ----------------------------
(***************************************************************************)
(* Model of convert_to_webdataset.py: a dataset of samples is cut into     *)
(* contiguous slices of at most shard_size samples; a multiprocessing.Pool *)
(* of num_proc workers writes each slice to its own tar shard, skipping    *)
(* samples whose input_features hold a NaN or an infinity; the main        *)
(* process counts the completions it receives on a progress bar.           *)
(*                                                                         *)
(* The environment can fail: the load of the dataset, the opening of a     *)
(* shard, the write of a record (an exception in the worker), and a worker *)
(* process can be terminated from outside at any point of a task.          *)
(***************************************************************************)
EXTENDS Integers, Sequences, FiniteSets, Bags, TLC

(***************************************************************************)
(* Bounds of the model.                                                    *)
(***************************************************************************)
MaxSamples == 3          \* len(dataset) ranges over 0..MaxSamples
MaxShardSize == 2        \* --shard_size ranges over 1..MaxShardSize
MaxProc == 2             \* --num_proc ranges over 1..MaxProc
MaxFaults == 1           \* I/O faults and process terminations per run
MaxPlanSamples == 11     \* len(dataset) in the planner's specification
MaxPlanShardSize == 4    \* --shard_size in the planner's specification
MaxFairSamples == 2      \* rows of the datasets of the fair runs

\* --shard_start_idx: the default, and the last index that fits 5 digits.
StartIdxChoices == {0, 99999}

(***************************************************************************)
(* Samples.  An array is a sequence of elements; an element is a decimal   *)
(* literal or one of the IEEE specials.                                    *)
(***************************************************************************)
isnan(x) == x = "nan"

isinf(x) == x \in {"inf", "-inf"}

\* np.isnan(a).any() and np.isinf(a).any() of line 26.
AnyNaN(a) == \E k \in 1..Len(a) : isnan(a[k])

AnyInf(a) == \E k \in 1..Len(a) : isinf(a[k])

\* A skip condition that forgets the infinities.
SkippedOnlyNaN(sample) == AnyNaN(sample.input_features)

\* The skip condition of save_shard, line 26: only input_features is read.
Skipped(sample) ==
    AnyNaN(sample.input_features) \/ AnyInf(sample.input_features)

\* The (input_features, labels) pairs the rows of a dataset are drawn from:
\* all finite, finite with NaN labels, a NaN, an infinity.
SampleKinds ==
    << [input_features |-> <<"0.1", "0.2">>, labels |-> <<"1">>],
       [input_features |-> <<"0.1", "0.2">>, labels |-> <<"nan">>],
       [input_features |-> <<"nan", "0.1">>, labels |-> <<"1">>],
       [input_features |-> <<"0.1", "-inf">>, labels |-> <<"1">>] >>

SampleChoices == { SampleKinds[k] : k \in 1..Len(SampleKinds) }

\* A dataset is a sequence of rows; `row` is the 0-based position of the
\* sample in the dataset, carried along so that a record can be traced to
\* the row it was made from (two rows may hold equal arrays).
Row(g, s) ==
    [row |-> g, input_features |-> s.input_features, labels |-> s.labels]

Datasets(n) ==
    { [g \in 1..n |-> Row(g - 1, f[g])] : f \in [1..n -> SampleChoices] }

\* The dataset of n samples that are all finite.
PlainDataset(n) == [g \in 1..n |-> Row(g - 1, SampleKinds[1])]

\* The dataset of n samples that goes round the kinds of samples.
MixedDataset(n) ==
    [g \in 1..n |-> Row(g - 1, SampleKinds[((g - 1) % Len(SampleKinds)) + 1])]

\* dataset.select(range(start, stop)), line 55.
Select(ds, start, stop) ==
    [j \in 1..(IF stop > start THEN stop - start ELSE 0) |-> ds[start + j]]

Min(a, b) == IF a < b THEN a ELSE b

(***************************************************************************)
(* Formatting: f"{n:05d}" and f"{n:06d}" for n >= 0 give the decimal       *)
(* digits of n, padded with zeros on the left to AT LEAST the width.       *)
(***************************************************************************)
Digit == <<"0", "1", "2", "3", "4", "5", "6", "7", "8", "9">>

RECURSIVE Decimal(_)
Decimal(n) ==
    IF n < 10 THEN Digit[n + 1]
    ELSE Decimal(n \div 10) \o Digit[(n % 10) + 1]

RECURSIVE ZeroPad(_, _)
ZeroPad(s, width) == IF Len(s) >= width THEN s ELSE ZeroPad("0" \o s, width)

\* A format that keeps only the last 5 digits.
ShardPathTruncated(output_dir, shard_idx) ==
    output_dir \o "/shard-" \o ZeroPad(Decimal(shard_idx % 100000), 5) \o ".tar"

\* shard_path of save_shard, line 22.
ShardPath(output_dir, shard_idx) ==
    output_dir \o "/shard-" \o ZeroPad(Decimal(shard_idx), 5) \o ".tar"

\* sample_key of save_shard, line 25.
SampleKey(sample_idx) == "sample" \o ZeroPad(Decimal(sample_idx), 6)

\* np.savez_compressed(buffer, name=array) followed by getvalue(): the
\* bytes of a container holding the one array under its name.
Savez(name, array) == [names |-> <<name>>, arrays |-> <<array>>]


(***************************************************************************)
(* State.                                                                  *)
(***************************************************************************)
VARIABLES
    dataset,          \* the shuffled concatenation (line 134), a sequence of rows
    shard_size,       \* args.shard_size
    num_proc,         \* args.num_proc
    shard_start_idx,  \* args.shard_start_idx
    main,             \* where the main process is
    total_shards,     \* line 74
    shard_tasks,      \* line 76
    pool,             \* "none", "running" or "terminated"
    inqueue,          \* tasks of imap_unordered not yet taken by a worker
    outqueue,         \* results put by the workers, not yet iterated over
    worker,           \* the worker processes, 1..num_proc
    iter_index,       \* results the iterator of line 83 has yielded
    pbar,             \* the tqdm bar of line 82
    fs,               \* the files of output_dir, by path
    stdout,           \* the skip diagnostics printed (line 27), a bag
    taken,            \* history: how many times each task was taken by a worker
    faults_left       \* faults the environment will still inject

vars == <<dataset, shard_size, num_proc, shard_start_idx, main, total_shards,
          shard_tasks, pool, inqueue, outqueue, worker, iter_index,
          pbar, fs, stdout, taken, faults_left>>

args == <<dataset, shard_size, num_proc, shard_start_idx>>

output_dir == "./webdataset-hi"

\* A shard left by an earlier run: one record, closed.
PriorFile ==
    [records |-> << [key |-> SampleKey(0),
                     input_npz |-> Savez("input_features", <<"0.5">>),
                     labels_npz |-> Savez("labels", <<"2">>),
                     row |-> -1] >>,
     open |-> FALSE, finalized |-> TRUE, prior |-> TRUE]

\* The output directory before the run.  A run that starts at index 0 finds
\* it empty; a run that starts at K > 0 finds the last shard of the run it
\* appends to, at K - 1, and a shard left at K + 1 by an earlier attempt.
PriorDir(K) ==
    IF K = 0 THEN <<>>
    ELSE (ShardPath(output_dir, K - 1) :> PriorFile)
             @@ (ShardPath(output_dir, K + 1) :> PriorFile)

IdleWorker ==
    [pc |-> "idle", i |-> -1, shard_idx |-> -1, start_idx |-> -1,
     shard_samples |-> <<>>, sample_idx |-> 0, ok |-> TRUE]

\* The state when the script starts, but for the arguments and the faults.
Started ==
    /\ fs = PriorDir(shard_start_idx)
    /\ main = "load"
    /\ total_shards = 0
    /\ shard_tasks = <<>>
    /\ pool = "none"
    /\ inqueue = <<>>
    /\ outqueue = <<>>
    /\ worker = <<>>
    /\ iter_index = 0
    /\ pbar = [n |-> 0, total |-> 0]
    /\ stdout = EmptyBag
    /\ taken = <<>>

\* Every dataset within the bounds, converted by one worker, with no fault.
InitSerial ==
    /\ dataset \in UNION { Datasets(n) : n \in 0..MaxSamples }
    /\ shard_size \in 1..MaxShardSize
    /\ num_proc = 1
    /\ shard_start_idx \in StartIdxChoices
    /\ faults_left = 0
    /\ Started

\* The mixed dataset of each length, converted by every number of workers,
\* with up to MaxFaults faults.
InitParallel ==
    /\ dataset \in { MixedDataset(n) : n \in 0..MaxSamples }
    /\ shard_size \in 1..MaxShardSize
    /\ num_proc \in 1..MaxProc
    /\ shard_start_idx \in StartIdxChoices
    /\ faults_left = MaxFaults
    /\ Started

Init == InitSerial \/ InitParallel

(***************************************************************************)
(* __main__, lines 124-148.                                                *)
(***************************************************************************)
\* The try block succeeds: create_webdataset is called with the dataset.
LoadOk ==
    /\ main = "load"
    /\ main' = "start"
    /\ UNCHANGED <<args, total_shards, shard_tasks, pool, inqueue,
                   outqueue, worker, iter_index, pbar, fs, stdout, taken,
                   faults_left>>

\* load_from_disk, concatenate_datasets or shuffle raises: sys.exit(1).
LoadFail ==
    /\ main = "load"
    /\ main' = "exit1"
    /\ UNCHANGED <<args, total_shards, shard_tasks, pool, inqueue,
                   outqueue, worker, iter_index, pbar, fs, stdout, taken,
                   faults_left>>

(***************************************************************************)
(* create_webdataset, lines 70-84.                                         *)
(***************************************************************************)
\* A count of shards that rounds down.
TotalShardsFloor(total_samples, size) == total_samples \div size

\* total_shards of line 74.
TotalShards(total_samples, size) == (total_samples + size - 1) \div size

\* A tuple that names every shard by the start index.
ShardTaskSameIndex(i, start, size) ==
    [shard_idx |-> start, start_idx |-> i * size,
     output_dir |-> output_dir, shard_size |-> size]

\* A tuple that numbers the shards from 0, whatever --shard_start_idx is.
ShardTaskIgnoresStart(i, start, size) ==
    [shard_idx |-> i, start_idx |-> i * size,
     output_dir |-> output_dir, shard_size |-> size]

\* One tuple of line 77 (the dataset itself, the same read-only value in
\* every tuple, is the variable dataset).
ShardTask(i, start, size) ==
    [shard_idx |-> start + i, start_idx |-> i * size,
     output_dir |-> output_dir, shard_size |-> size]

\* shard_tasks of lines 76-79.
ShardTasks(n_shards, start, size) ==
    [t \in 1..n_shards |-> ShardTask(t - 1, start, size)]

\* A script whose except branch does not exit: it goes on to
\* create_webdataset after a failed load as after a successful one.
PlanAfterFailedLoad ==
    /\ main \in {"start", "exit1"}
    /\ total_shards' = TotalShards(Len(dataset), shard_size)
    /\ shard_tasks' = ShardTasks(total_shards', shard_start_idx, shard_size)
    /\ main' = "planned"
    /\ UNCHANGED <<args, pool, inqueue, outqueue, worker,
                   iter_index, pbar, fs, stdout, taken, faults_left>>

\* Lines 70-79: makedirs, the count of shards and the list of tasks.
Plan ==
    /\ main = "start"
    /\ total_shards' = TotalShards(Len(dataset), shard_size)
    /\ shard_tasks' = ShardTasks(total_shards', shard_start_idx, shard_size)
    /\ main' = "planned"
    /\ UNCHANGED <<args, pool, inqueue, outqueue, worker,
                   iter_index, pbar, fs, stdout, taken, faults_left>>

\* A pool that starts one worker more than --num_proc asks for.
StartPoolExtraWorker ==
    /\ main = "planned"
    /\ pool' = "running"
    /\ worker' = [w \in 1..(num_proc + 1) |-> IdleWorker]
    /\ pbar' = [n |-> 0, total |-> total_shards]
    /\ inqueue' = [t \in 1..Len(shard_tasks) |->
                      [i |-> t - 1, task |-> shard_tasks[t]]]
    /\ taken' = [t \in 1..Len(shard_tasks) |-> 0]
    /\ iter_index' = 0
    /\ main' = "iterate"
    /\ UNCHANGED <<args, total_shards, shard_tasks, outqueue, fs, stdout,
                   faults_left>>

\* Lines 81-83: Pool(num_proc) starts the workers, tqdm starts at 0 and
\* imap_unordered hands the tasks, numbered from 0 and in the order of the
\* list, to the queue the workers take them from.
StartPool ==
    /\ main = "planned"
    /\ pool' = "running"
    /\ worker' = [w \in 1..num_proc |-> IdleWorker]
    /\ pbar' = [n |-> 0, total |-> total_shards]
    /\ inqueue' = [t \in 1..Len(shard_tasks) |->
                      [i |-> t - 1, task |-> shard_tasks[t]]]
    /\ taken' = [t \in 1..Len(shard_tasks) |-> 0]
    /\ iter_index' = 0
    /\ main' = "iterate"
    /\ UNCHANGED <<args, total_shards, shard_tasks, outqueue, fs, stdout,
                   faults_left>>

\* Pool.terminate: the workers are killed; a shard a worker was still
\* writing stays as it is, unclosed.
Terminated(files) ==
    [p \in DOMAIN files |-> [files[p] EXCEPT !.open = FALSE]]

\* An iterator that stops one result short.
ExhaustedOneShort == iter_index >= Len(shard_tasks) - 1

\* The iterator is exhausted once it has yielded one result per task.
Exhausted == iter_index = Len(shard_tasks)

\* A loop that counts a failed task's result as a completion and goes on.
MainNextSwallow ==
    /\ main = "iterate"
    /\ ~Exhausted
    /\ outqueue # <<>>
    /\ outqueue' = Tail(outqueue)
    /\ iter_index' = iter_index + 1
    /\ pbar' = [pbar EXCEPT !.n = @ + 1]
    /\ UNCHANGED <<args, main, pool, worker, fs, total_shards, shard_tasks,
                   inqueue, stdout, taken, faults_left>>

\* A loop that advances the bar by the size of a shard, not by one.
MainNextUpdateBySize ==
    /\ main = "iterate"
    /\ ~Exhausted
    /\ outqueue # <<>>
    /\ outqueue' = Tail(outqueue)
    /\ IF Head(outqueue).ok
       THEN /\ iter_index' = iter_index + 1
            /\ pbar' = [pbar EXCEPT !.n = @ + shard_size]
            /\ UNCHANGED <<main, pool, worker, fs>>
       ELSE /\ main' = "raised"
            /\ pool' = "terminated"
            /\ worker' = [w \in DOMAIN worker |-> IdleWorker]
            /\ fs' = Terminated(fs)
            /\ UNCHANGED <<iter_index, pbar>>
    /\ UNCHANGED <<args, total_shards, shard_tasks, inqueue,
                   stdout, taken, faults_left>>

\* Lines 83-84: the next result arrives; a task's exception is raised
\* again here, which leaves both with blocks and terminates the pool.
MainNext ==
    /\ main = "iterate"
    /\ ~Exhausted
    /\ outqueue # <<>>
    /\ outqueue' = Tail(outqueue)
    /\ IF Head(outqueue).ok
       THEN /\ iter_index' = iter_index + 1
            /\ pbar' = [pbar EXCEPT !.n = @ + 1]
            /\ UNCHANGED <<main, pool, worker, fs>>
       ELSE /\ main' = "raised"
            /\ pool' = "terminated"
            /\ worker' = [w \in DOMAIN worker |-> IdleWorker]
            /\ fs' = Terminated(fs)
            /\ UNCHANGED <<iter_index, pbar>>
    /\ UNCHANGED <<args, total_shards, shard_tasks, inqueue,
                   stdout, taken, faults_left>>

\* Line 83 ends the loop; the with blocks close the bar and terminate the
\* pool; create_webdataset returns.
MainReturn ==
    /\ main = "iterate"
    /\ Exhausted
    /\ main' = "returned"
    /\ pool' = "terminated"
    /\ worker' = [w \in DOMAIN worker |-> IdleWorker]
    /\ fs' = Terminated(fs)
    /\ UNCHANGED <<args, total_shards, shard_tasks, inqueue,
                   outqueue, iter_index, pbar, stdout, taken, faults_left>>

(***************************************************************************)
(* A worker process of the pool: it takes a task, runs                     *)
(* process_single_shard (lines 45-57) on it and puts the result.           *)
(***************************************************************************)
\* shard_samples of lines 54-55: the rows of the dataset a task selects.
ShardSamples(ds, task) ==
    LET end_idx == task.start_idx + task.shard_size
    IN Select(ds, task.start_idx, Min(Len(ds), end_idx))

\* A worker that reads the first task without removing it from the queue.
GetPeek(q) == q

\* What is left of the workers' queue after a worker took its first task.
Get(q) == Tail(q)

\* The worker takes a task; lines 53-55 unpack it and select its slice.
WorkerGet(w) ==
    /\ pool = "running"
    /\ worker[w].pc = "idle"
    /\ inqueue # <<>>
    /\ LET job == Head(inqueue)
       IN /\ worker' = [worker EXCEPT ![w] =
                 [pc |-> "open", i |-> job.i,
                  shard_idx |-> job.task.shard_idx,
                  start_idx |-> job.task.start_idx,
                  shard_samples |-> ShardSamples(dataset, job.task),
                  sample_idx |-> 0, ok |-> TRUE]]
          /\ taken' = [taken EXCEPT ![job.i + 1] = @ + 1]
    /\ inqueue' = Get(inqueue)
    /\ UNCHANGED <<args, main, total_shards, shard_tasks, pool,
                   outqueue, iter_index, pbar, fs, stdout,
                   faults_left>>

\* The file wds.TarWriter(shard_path) creates, or truncates.
NewFile ==
    [records |-> <<>>, open |-> TRUE, finalized |-> FALSE, prior |-> FALSE]

\* Line 23: the writer opens the shard.
WorkerOpen(w) ==
    /\ pool = "running"
    /\ worker[w].pc = "open"
    /\ LET shard_path == ShardPath(output_dir, worker[w].shard_idx)
       IN fs' = (shard_path :> NewFile) @@ fs
    /\ worker' = [worker EXCEPT ![w].pc = "loop"]
    /\ UNCHANGED <<args, main, total_shards, shard_tasks, pool, inqueue,
                   outqueue, iter_index, pbar, stdout, taken, faults_left>>

\* Line 23 raises (the directory is not writable): no file is made, the
\* exception leaves process_single_shard and becomes the task's result.
WorkerOpenFault(w) ==
    /\ pool = "running"
    /\ worker[w].pc = "open"
    /\ faults_left > 0
    /\ faults_left' = faults_left - 1
    /\ worker' = [worker EXCEPT ![w].pc = "put", ![w].ok = FALSE]
    /\ UNCHANGED <<args, main, total_shards, shard_tasks, pool, inqueue,
                   outqueue, iter_index, pbar, fs, stdout, taken>>

\* A key that numbers the records written instead of the samples seen.
RecordKeyRenumbered(sample_idx, n_written) == SampleKey(n_written)

\* The key of the sample at position sample_idx of the slice, line 25;
\* n_written is the number of records the shard holds at that moment.
RecordKey(sample_idx, n_written) == SampleKey(sample_idx)

\* The dictionary of lines 38-42.  The field row is not in the archive: it
\* records which row of the dataset the record was made from.
Record(sample_key, sample) ==
    [key |-> sample_key,
     input_npz |-> Savez("input_features", sample.input_features),
     labels_npz |-> Savez("labels", sample.labels),
     row |-> sample.row]

\* The message of line 27.
SkipMessage(sample_key) ==
    "Skipping sample " \o sample_key \o " due to NaN or Inf in input_features."

\* A loop that leaves the shard at the first invalid sample (break where
\* line 28 has continue).
WorkerSampleBreaks(w) ==
    /\ pool = "running"
    /\ worker[w].pc = "loop"
    /\ worker[w].sample_idx < Len(worker[w].shard_samples)
    /\ LET shard_path == ShardPath(output_dir, worker[w].shard_idx)
           sample_idx == worker[w].sample_idx
           sample == worker[w].shard_samples[sample_idx + 1]
           sample_key == RecordKey(sample_idx, Len(fs[shard_path].records))
       IN IF Skipped(sample)
          THEN /\ stdout' = stdout (+) SetToBag({SkipMessage(sample_key)})
               /\ worker' = [worker EXCEPT ![w].sample_idx =
                                 Len(worker[w].shard_samples)]
               /\ UNCHANGED fs
          ELSE /\ fs' = [fs EXCEPT ![shard_path].records =
                            Append(@, Record(sample_key, sample))]
               /\ worker' = [worker EXCEPT ![w].sample_idx = @ + 1]
               /\ UNCHANGED stdout
    /\ UNCHANGED <<args, main, total_shards, shard_tasks, pool, inqueue,
                   outqueue, iter_index, pbar, taken, faults_left>>

\* One iteration of the loop of lines 24-42: the sample is skipped with a
\* message, or encoded and written to the shard.
WorkerSample(w) ==
    /\ pool = "running"
    /\ worker[w].pc = "loop"
    /\ worker[w].sample_idx < Len(worker[w].shard_samples)
    /\ LET shard_path == ShardPath(output_dir, worker[w].shard_idx)
           sample_idx == worker[w].sample_idx
           sample == worker[w].shard_samples[sample_idx + 1]
           sample_key == RecordKey(sample_idx, Len(fs[shard_path].records))
       IN IF Skipped(sample)
          THEN /\ stdout' = stdout (+) SetToBag({SkipMessage(sample_key)})
               /\ UNCHANGED fs
          ELSE /\ fs' = [fs EXCEPT ![shard_path].records =
                            Append(@, Record(sample_key, sample))]
               /\ UNCHANGED stdout
    /\ worker' = [worker EXCEPT ![w].sample_idx = @ + 1]
    /\ UNCHANGED <<args, main, total_shards, shard_tasks, pool, inqueue,
                   outqueue, iter_index, pbar, taken, faults_left>>

\* sink.write of line 38 raises (an I/O error): the record is not written,
\* the with block of line 23 closes the writer, which ends the archive,
\* and the exception becomes the task's result.
WorkerWriteFault(w) ==
    /\ pool = "running"
    /\ worker[w].pc = "loop"
    /\ worker[w].sample_idx < Len(worker[w].shard_samples)
    /\ ~Skipped(worker[w].shard_samples[worker[w].sample_idx + 1])
    /\ faults_left > 0
    /\ faults_left' = faults_left - 1
    /\ LET shard_path == ShardPath(output_dir, worker[w].shard_idx)
       IN fs' = [fs EXCEPT ![shard_path].open = FALSE,
                           ![shard_path].finalized = TRUE]
    /\ worker' = [worker EXCEPT ![w].pc = "put", ![w].ok = FALSE]
    /\ UNCHANGED <<args, main, total_shards, shard_tasks, pool, inqueue,
                   outqueue, iter_index, pbar, stdout, taken>>

\* A writer that removes the shard it closes when it holds no record.
WorkerCloseDropsEmpty(w) ==
    /\ pool = "running"
    /\ worker[w].pc = "loop"
    /\ worker[w].sample_idx = Len(worker[w].shard_samples)
    /\ LET shard_path == ShardPath(output_dir, worker[w].shard_idx)
       IN IF fs[shard_path].records = <<>>
          THEN fs' = [p \in DOMAIN fs \ {shard_path} |-> fs[p]]
          ELSE fs' = [fs EXCEPT ![shard_path].open = FALSE,
                                ![shard_path].finalized = TRUE]
    /\ worker' = [worker EXCEPT ![w].pc = "put"]
    /\ UNCHANGED <<args, main, total_shards, shard_tasks, pool, inqueue,
                   outqueue, iter_index, pbar, stdout, taken, faults_left>>

\* The loop is over: the with block of line 23 closes the writer and
\* process_single_shard returns shard_idx (line 57).
WorkerClose(w) ==
    /\ pool = "running"
    /\ worker[w].pc = "loop"
    /\ worker[w].sample_idx = Len(worker[w].shard_samples)
    /\ LET shard_path == ShardPath(output_dir, worker[w].shard_idx)
       IN fs' = [fs EXCEPT ![shard_path].open = FALSE,
                           ![shard_path].finalized = TRUE]
    /\ worker' = [worker EXCEPT ![w].pc = "put"]
    /\ UNCHANGED <<args, main, total_shards, shard_tasks, pool, inqueue,
                   outqueue, iter_index, pbar, stdout, taken, faults_left>>

\* The worker puts the task's result, the shard index or the exception,
\* on the results' queue and is idle again.
WorkerPut(w) ==
    /\ pool = "running"
    /\ worker[w].pc = "put"
    /\ outqueue' = Append(outqueue,
                          [i |-> worker[w].i, ok |-> worker[w].ok,
                           value |-> worker[w].shard_idx])
    /\ worker' = [worker EXCEPT ![w] = IdleWorker]
    /\ UNCHANGED <<args, main, total_shards, shard_tasks, pool, inqueue,
                   iter_index, pbar, fs, stdout, taken, faults_left>>

\* The worker process is terminated from outside (a signal, the OOM
\* killer) in the middle of a task: the task's result is never put, a
\* shard it was writing stays unclosed, and the pool starts a new worker in
\* its place.
WorkerKilled(w) ==
    /\ pool = "running"
    /\ worker[w].pc # "idle"
    /\ faults_left > 0
    /\ faults_left' = faults_left - 1
    /\ LET shard_path == ShardPath(output_dir, worker[w].shard_idx)
       IN IF worker[w].pc = "loop"
          THEN fs' = [fs EXCEPT ![shard_path].open = FALSE]
          ELSE UNCHANGED fs
    /\ worker' = [worker EXCEPT ![w] = IdleWorker]
    /\ UNCHANGED <<args, main, total_shards, shard_tasks, pool, inqueue,
                   outqueue, iter_index, pbar, stdout, taken>>

Next ==
    \/ LoadOk
    \/ LoadFail
    \/ Plan
    \/ StartPool
    \/ MainNext
    \/ MainReturn
    \/ \E w \in DOMAIN worker : WorkerGet(w)
    \/ \E w \in DOMAIN worker : WorkerOpen(w)
    \/ \E w \in DOMAIN worker : WorkerOpenFault(w)
    \/ \E w \in DOMAIN worker : WorkerSample(w)
    \/ \E w \in DOMAIN worker : WorkerWriteFault(w)
    \/ \E w \in DOMAIN worker : WorkerClose(w)
    \/ \E w \in DOMAIN worker : WorkerPut(w)
    \/ \E w \in DOMAIN worker : WorkerKilled(w)

Spec == Init /\ [][Next]_vars

(***************************************************************************)
(* The planner alone, on longer datasets: the script up to line 79.        *)
(***************************************************************************)
InitPlan ==
    /\ dataset \in { PlainDataset(n) : n \in 0..MaxPlanSamples }
    /\ shard_size \in 1..MaxPlanShardSize
    /\ num_proc = 1
    /\ shard_start_idx \in StartIdxChoices
    /\ faults_left = 0
    /\ Started

NextPlan == LoadOk \/ Plan

SpecPlan == InitPlan /\ [][NextPlan]_vars

(***************************************************************************)
(* The script under fair scheduling.  The main process and every worker    *)
(* process are scheduled by the operating system: a process that can take  *)
(* a step of its code takes one in the end.  The faults are the            *)
(* environment's, and nothing forces them.                                 *)
(***************************************************************************)
\* A step of the main process.
MainStep == LoadOk \/ LoadFail \/ Plan \/ StartPool \/ MainNext \/ MainReturn

\* A step of the code worker w runs.
WorkerStep(w) ==
    /\ w \in DOMAIN worker
    /\ \/ WorkerGet(w)
       \/ WorkerOpen(w)
       \/ WorkerSample(w)
       \/ WorkerClose(w)
       \/ WorkerPut(w)

Fairness ==
    /\ WF_vars(MainStep)
    /\ \A w \in 1..MaxProc : WF_vars(WorkerStep(w))

\* The runs of the mixed datasets of up to MaxFairSamples rows into an empty
\* directory, by every number of workers, with up to MaxFaults faults.
InitFair ==
    /\ InitParallel
    /\ Len(dataset) <= MaxFairSamples
    /\ shard_start_idx = 0

SpecFair == InitFair /\ [][Next]_vars /\ Fairness

(***************************************************************************)
(* Properties.                                                             *)
(***************************************************************************)
\* Lines 72-79 have run.
Planned == main \in {"planned", "iterate", "returned", "raised"}

\* ceil(n / size), by its definition: the least m with m * size >= n.
Ceil(n, size) == CHOOSE m \in 0..n : m * size >= n /\ \A k \in 0..(m - 1) : k * size < n

\* The indices of the dataset that the worker of a task selects.
SelectedRows(task) ==
    LET shard_samples == ShardSamples(dataset, task)
    IN { shard_samples[j].row : j \in 1..Len(shard_samples) }

\* C1: the plan holds exactly ceil(N/S) tasks; task i has shard index K+i
\* and start offset i*S, and its worker selects exactly the indices
\* [i*S, min(N, i*S+S)), which are min(S, N - i*S) >= 1 many; the ranges
\* of the tasks are pairwise disjoint and their union is [0, N).
C1_PlanPartitions ==
    Planned =>
        LET N == Len(dataset)
            S == shard_size
            K == shard_start_idx
            T == Ceil(N, S)
            rows(i) == SelectedRows(shard_tasks[i + 1])
        IN /\ total_shards = T
           /\ Len(shard_tasks) = T
           /\ \A i \in 0..(T - 1) :
                 /\ shard_tasks[i + 1].shard_idx = K + i
                 /\ shard_tasks[i + 1].start_idx = i * S
                 /\ rows(i) = { g \in 0..(N - 1) :
                                  i * S <= g /\ g < Min(N, i * S + S) }
                 /\ Cardinality(rows(i)) = Min(S, N - i * S)
                 /\ Cardinality(rows(i)) >= 1
           /\ \A i, k \in 0..(T - 1) : i # k => rows(i) \cap rows(k) = {}
           /\ UNION { rows(i) : i \in 0..(T - 1) } = 0..(N - 1)

\* A plan of three tasks whose last slice is shorter than shard_size.
C1_Witness ==
    /\ Planned
    /\ Len(dataset) = 7
    /\ shard_size = 3
    /\ Len(shard_tasks) = 3
    /\ Cardinality(SelectedRows(shard_tasks[3])) = 1


\* The numbers the pool gives the tasks of the run.
TaskIds == 0..(Len(shard_tasks) - 1)

\* The workers that are processing task i.
Holders(i) == { w \in DOMAIN worker : worker[w].pc # "idle" /\ worker[w].i = i }

\* How many entries of a queue belong to task i.
CountIn(q, i) == Cardinality({ k \in 1..Len(q) : q[k].i = i })

\* The path of the shard of task i.
TaskPath(i) == ShardPath(output_dir, shard_tasks[i + 1].shard_idx)

\* In a state: a task is waiting in the queue or was taken once, never
\* both and never twice; at most one worker is processing it, and only
\* after taking it; it has at most one result, and not while it is being
\* processed; and when create_webdataset has returned, every task was
\* taken and its shard was written to the end and closed.
C2_State ==
    pool # "none" =>
        /\ \A i \in TaskIds :
              /\ taken[i + 1] + CountIn(inqueue, i) = 1
              /\ Cardinality(Holders(i)) <= taken[i + 1]
              /\ CountIn(outqueue, i) + Cardinality(Holders(i)) <= 1
        /\ \A w \in DOMAIN worker : worker[w].pc # "idle" => worker[w].i \in TaskIds
        /\ main = "returned" =>
              \A i \in TaskIds :
                 /\ taken[i + 1] = 1
                 /\ Holders(i) = {}
                 /\ TaskPath(i) \in DOMAIN fs
                 /\ fs[TaskPath(i)].finalized /\ ~fs[TaskPath(i)].prior

\* In a step: a worker starts on a task only by taking it from the head of
\* the queue, which counts as the one take of that task; a worker that is
\* processing a task keeps it until it is idle again, so that no task
\* passes from one worker to another.
C2_Step ==
    \A w \in DOMAIN worker :
        (w \in DOMAIN worker' /\ worker'[w].i # worker[w].i) =>
            \/ worker'[w].pc = "idle"
            \/ /\ worker[w].pc = "idle"
               /\ inqueue # <<>>
               /\ Head(inqueue).i = worker'[w].i
               /\ taken[worker'[w].i + 1] = 0
               /\ taken'[worker'[w].i + 1] = 1
               /\ CountIn(inqueue', worker'[w].i) = 0

\* C2: in every interleaving every planned task is taken by exactly one
\* worker and processed once: no task is dispatched twice, none is handed
\* from one worker to another, and when the run completes none is left
\* unprocessed.
C2_TaskTakenOnce == []C2_State /\ [][C2_Step]_vars

\* A run of three tasks on two workers has returned.
C2_Witness ==
    /\ main = "returned"
    /\ num_proc = 2
    /\ Len(shard_tasks) = 3
    /\ \A i \in TaskIds : taken[i + 1] = 1

(***************************************************************************)
(* What a run is expected to write, stated from the inputs alone.          *)
(***************************************************************************)
\* An array with no NaN and no infinite element.
FiniteArray(a) == \A k \in 1..Len(a) : a[k] \notin {"nan", "inf", "-inf"}

\* j, below 10^6, as six digits.
SixDigits(j) ==
    Digit[((j \div 100000) % 10) + 1] \o Digit[((j \div 10000) % 10) + 1]
      \o Digit[((j \div 1000) % 10) + 1] \o Digit[((j \div 100) % 10) + 1]
      \o Digit[((j \div 10) % 10) + 1] \o Digit[(j % 10) + 1]

\* The record of the sample at position j of the slice that starts at
\* index start of dataset ds.
ExpectedRecord(ds, start, j) ==
    [key |-> "sample" \o SixDigits(j),
     input_npz |-> [names |-> <<"input_features">>,
                    arrays |-> <<ds[start + j + 1].input_features>>],
     labels_npz |-> [names |-> <<"labels">>,
                     arrays |-> <<ds[start + j + 1].labels>>],
     row |-> start + j]

\* The records of the first n positions of that slice: one for each sample
\* with finite input_features, in the order of the slice.
RECURSIVE ExpectedPrefix(_, _, _)
ExpectedPrefix(ds, start, n) ==
    IF n = 0 THEN <<>>
    ELSE ExpectedPrefix(ds, start, n - 1)
           \o (IF FiniteArray(ds[start + n].input_features)
               THEN <<ExpectedRecord(ds, start, n - 1)>> ELSE <<>>)

\* The records of the shard of a slice of count samples.
ExpectedShard(ds, start, count) == ExpectedPrefix(ds, start, count)

\* The size of the slice of task i.
SliceCount(i) == Min(shard_size, Len(dataset) - i * shard_size)

\* The records task i is expected to write.
ExpectedOfTask(i) == ExpectedShard(dataset, i * shard_size, SliceCount(i))

\* The shard files in the directory that this run created.
Produced == { p \in DOMAIN fs : ~fs[p].prior }

\* C3: a successful run ends with a set of shard files and, in each, a
\* sequence of records that are functions of the dataset, shard_size and
\* shard_start_idx alone: the number of workers, the schedule and the order
\* of completion have no part in them, so two successful runs agree.
C3_ContentsDeterministic ==
    main = "returned" =>
        LET T == Ceil(Len(dataset), shard_size)
        IN /\ Produced =
                { ShardPath(output_dir, shard_start_idx + i) : i \in 0..(T - 1) }
           /\ \A i \in 0..(T - 1) :
                 fs[ShardPath(output_dir, shard_start_idx + i)].records
                     = ExpectedOfTask(i)

\* Two workers have converted the mixed dataset of three samples, one
\* sample a shard, and the run has returned.
C3_Witness ==
    /\ main = "returned"
    /\ num_proc = 2
    /\ shard_size = 1
    /\ dataset = MixedDataset(3)
    /\ Cardinality(Produced) = 3

\* The places (file, position) of the output that hold a record made
\* from row g of the dataset.
Occurrences(g) ==
    { <<p, k>> \in Produced \X (1..Len(dataset)) :
          k <= Len(fs[p].records) /\ fs[p].records[k].row = g }

\* C4: after a successful run the sample at index g is in the output if
\* and only if its input_features are all finite, and then once, in shard
\* shard_start_idx + (g div shard_size), with its two arrays, whatever its
\* labels hold.
C4_FiniteSamplesOnly ==
    main = "returned" =>
        \A g \in 0..(Len(dataset) - 1) :
            IF FiniteArray(dataset[g + 1].input_features)
            THEN /\ Cardinality(Occurrences(g)) = 1
                 /\ \A o \in Occurrences(g) :
                       /\ o[1] = ShardPath(output_dir,
                                           shard_start_idx + (g \div shard_size))
                       /\ fs[o[1]].records[o[2]].input_npz.arrays
                              = <<dataset[g + 1].input_features>>
                       /\ fs[o[1]].records[o[2]].labels_npz.arrays
                              = <<dataset[g + 1].labels>>
            ELSE Occurrences(g) = {}

\* A successful run over a dataset with a NaN sample, an infinite sample
\* and a finite sample whose labels hold a NaN: only the last is written.
C4_Witness ==
    /\ main = "returned"
    /\ Len(dataset) = 3
    /\ AnyNaN(dataset[1].input_features)
    /\ AnyInf(dataset[2].input_features)
    /\ FiniteArray(dataset[3].input_features) /\ AnyNaN(dataset[3].labels)
    /\ Occurrences(0) = {} /\ Occurrences(1) = {}
    /\ Cardinality(Occurrences(2)) = 1

\* The number of records in the shards of a set of paths.
RECURSIVE RecordsIn(_)
RecordsIn(paths) ==
    IF paths = {} THEN 0
    ELSE LET p == CHOOSE q \in paths : TRUE
         IN Len(fs[p].records) + RecordsIn(paths \ {p})

\* The samples of the slice of task i that have a non-finite input_features.
NonFiniteOfTask(i) ==
    { j \in 0..(SliceCount(i) - 1) :
          ~FiniteArray(dataset[i * shard_size + j + 1].input_features) }

\* The sizes of the slices that the plan of lines 72-79 and the selection
\* of lines 54-55 give 2500 samples in shards of 1000.
SliceSizes2500 ==
    LET ds == PlainDataset(2500)
        tasks == ShardTasks(TotalShards(Len(ds), 1000), 0, 1000)
    IN [t \in 1..Len(tasks) |-> Len(ShardSamples(ds, tasks[t]))]

\* C5: a successful run has produced ceil(N/S) shard files, none when
\* N = 0, and the records of all shards plus the skipped samples (one
\* message each) are N; shard i holds its slice less the skipped samples,
\* and the slices of 2500 samples in shards of 1000 are 1000, 1000 and 500.
C5_ShardAndRecordCounts ==
    /\ main = "returned" =>
          /\ Cardinality(Produced) = Ceil(Len(dataset), shard_size)
          /\ Len(dataset) = 0 => Produced = {}
          /\ RecordsIn(Produced) + BagCardinality(stdout) = Len(dataset)
          /\ \A i \in TaskIds :
                Len(fs[TaskPath(i)].records) + Cardinality(NonFiniteOfTask(i))
                    = SliceCount(i)
    /\ SliceSizes2500 = <<1000, 1000, 500>>

\* A successful run over three samples in shards of two, one sample
\* skipped: two shards, two records and one skipped sample.
C5_Witness ==
    /\ main = "returned"
    /\ Len(dataset) = 3
    /\ shard_size = 2
    /\ Cardinality(Produced) = 2
    /\ RecordsIn(Produced) = 2
    /\ BagCardinality(stdout) = 1

\* n, below 10^5, as five digits.
FiveDigits(n) ==
    Digit[((n \div 10000) % 10) + 1] \o Digit[((n \div 1000) % 10) + 1]
      \o Digit[((n \div 100) % 10) + 1] \o Digit[((n \div 10) % 10) + 1]
      \o Digit[(n % 10) + 1]

\* The name of the shard of index n: five digits, or all the digits of n
\* when it has more.
ExpectedName(n) ==
    output_dir \o "/shard-"
      \o (IF n < 100000 THEN FiveDigits(n)
          ELSE Decimal(n \div 100000) \o FiveDigits(n % 100000))
      \o ".tar"

\* C6: the shard files a run writes are named shard-{shard_start_idx + i}
\* with the index padded to five digits, for i in [0, total_shards): in
\* every state the files written so far are among these names, after a
\* successful run they are all of them, without a gap, and no two tasks
\* have the same path, also when an index has more than five digits.
C6_ShardNames ==
    Planned =>
        LET name == [i \in 0..(total_shards - 1) |->
                        ExpectedName(shard_start_idx + i)]
            path == [i \in TaskIds |-> TaskPath(i)]
            names == { name[i] : i \in DOMAIN name }
        IN /\ Produced \subseteq names
           /\ main = "returned" => Produced = names
           /\ Cardinality(names) = total_shards
           /\ path = name
           /\ \A i, k \in TaskIds : i # k => path[i] # path[k]

\* A successful run from index 99999 has written shard-99999.tar and
\* shard-100000.tar.
C6_Witness ==
    /\ main = "returned"
    /\ shard_start_idx = 99999
    /\ total_shards >= 2
    /\ "./webdataset-hi/shard-99999.tar" \in Produced
    /\ "./webdataset-hi/shard-100000.tar" \in Produced

\* The position in its slice of the sample a key names.
KeyPosition(key) ==
    CHOOSE j \in 0..(shard_size - 1) : key = "sample" \o SixDigits(j)

\* C7: in every shard, at every moment, the record of the sample at
\* position j of the slice has the key sample{j as six digits}; the records
\* are those of the samples with finite input_features among the ones
\* handled so far, in the order of the slice, so that the keys are unique
\* and increase in write order, and a skipped position leaves a gap; a
\* shard closed at the end of the loop holds all of them.
C7_KeysFollowPositions ==
    \A i \in TaskIds :
        TaskPath(i) \in Produced =>
            LET records == fs[TaskPath(i)].records
                start == i * shard_size
            IN /\ \A k \in 1..Len(records) :
                     /\ records[k].row - start \in 0..(SliceCount(i) - 1)
                     /\ records[k].key = "sample" \o SixDigits(records[k].row - start)
               /\ \A k, l \in 1..Len(records) :
                     k < l => /\ records[k].key # records[l].key
                              /\ KeyPosition(records[k].key)
                                     < KeyPosition(records[l].key)
               /\ \E n \in 0..SliceCount(i) :
                     records = ExpectedPrefix(dataset, start, n)
               /\ \A w \in Holders(i) :
                     /\ worker[w].pc = "loop" =>
                           records = ExpectedPrefix(dataset, start,
                                                    worker[w].sample_idx)
                     /\ (worker[w].pc = "put" /\ worker[w].ok) =>
                           records = ExpectedOfTask(i)

\* A closed shard of two samples whose first sample was skipped: its one
\* record has the key of position 1.
C7_Witness ==
    \E i \in TaskIds :
        /\ TaskPath(i) \in Produced
        /\ fs[TaskPath(i)].finalized
        /\ SliceCount(i) = 2
        /\ Len(fs[TaskPath(i)].records) = 1
        /\ fs[TaskPath(i)].records[1].key = "sample000001"

\* The workers that have the shard at path p open for writing.
Writers(p) ==
    { w \in DOMAIN worker :
          worker[w].pc = "loop" /\ ShardPath(output_dir, worker[w].shard_idx) = p }

\* In a state: a shard file is open for writing by at most one worker, and
\* a file is open exactly when a worker is writing it.
C8_State ==
    \A p \in DOMAIN fs :
        /\ Cardinality(Writers(p)) <= 1
        /\ fs[p].open <=> Writers(p) # {}

\* In a step: a shard file is created, truncated or appended to only by
\* the step of one worker, which is the only worker that took the task of
\* that shard; no other worker moves in that step.
C8_Step ==
    \A p \in DOMAIN fs' :
        (\/ p \notin DOMAIN fs
         \/ fs'[p].records # fs[p].records
         \/ fs'[p].prior # fs[p].prior) =>
            \E w \in DOMAIN worker :
                /\ worker[w].pc \in {"open", "loop"}
                /\ ShardPath(output_dir, worker[w].shard_idx) = p
                /\ TaskPath(worker[w].i) = p
                /\ Holders(worker[w].i) = {w}
                /\ taken[worker[w].i + 1] = 1
                /\ \A i \in TaskIds : TaskPath(i) = p => i = worker[w].i
                /\ worker'[w] # worker[w]
                /\ \A v \in DOMAIN worker \ {w} : worker'[v] = worker[v]

\* C8: no two workers ever have the same shard file open for writing, and
\* every record of a shard file is appended by the one worker that took the
\* task of that shard; no lock is involved.
C8_OneWriterPerShard == []C8_State /\ [][C8_Step]_vars

\* Two workers are writing two different shards at the same time.
C8_Witness ==
    \E v, w \in DOMAIN worker :
        /\ v # w
        /\ worker[v].pc = "loop" /\ worker[w].pc = "loop"
        /\ worker[v].shard_idx # worker[w].shard_idx
        /\ fs[ShardPath(output_dir, worker[v].shard_idx)].open
        /\ fs[ShardPath(output_dir, worker[w].shard_idx)].open

\* In a state: when create_webdataset has returned, every task has reported
\* and the shard of every task was written to the end and closed.
C9_State ==
    main = "returned" =>
        /\ iter_index = Len(shard_tasks)
        /\ inqueue = <<>> /\ outqueue = <<>>
        /\ \A i \in TaskIds :
              /\ TaskPath(i) \in Produced
              /\ fs[TaskPath(i)].finalized /\ ~fs[TaskPath(i)].open
              /\ fs[TaskPath(i)].records = ExpectedOfTask(i)

\* In a step: create_webdataset returns only from a state in which no task
\* is waiting and no worker is processing one.
C9_Step ==
    (main # "returned" /\ main' = "returned") =>
        /\ inqueue = <<>>
        /\ \A w \in DOMAIN worker : worker[w].pc = "idle"
        /\ \A i \in TaskIds : taken[i + 1] = 1 /\ fs[TaskPath(i)].finalized

\* C9: create_webdataset returns normally only after every planned task
\* has reported, that is after every shard was written and closed; it has
\* never returned while a task is pending or in progress.
C9_ReturnsAfterAllTasks == []C9_State /\ [][C9_Step]_vars

\* The run of two tasks on two workers has returned with the bar at 2.
C9_Witness ==
    /\ main = "returned"
    /\ num_proc = 2
    /\ total_shards = 2
    /\ pbar.n = 2
    /\ \A i \in TaskIds : fs[TaskPath(i)].finalized

\* C10: closing the writer is the commit point of a shard: a file at the
\* final path of a task's shard that no worker is writing holds all the
\* records of the slice, so that a task that failed or was terminated
\* before the close has left no file there with only a part of them.
C10_NoPartialShard ==
    \A i \in TaskIds :
        (TaskPath(i) \in Produced /\ ~fs[TaskPath(i)].open) =>
            fs[TaskPath(i)].records = ExpectedOfTask(i)


\* The tasks whose failure is on its way to the main process: the worker
\* holds the exception, or it is on the results' queue.
FailedTasks ==
    { worker[w].i : w \in { v \in DOMAIN worker :
                              worker[v].pc = "put" /\ ~worker[v].ok } }
        \cup { outqueue[k].i : k \in { j \in 1..Len(outqueue) : ~outqueue[j].ok } }

\* The failures on the results' queue.
FailuresQueued == Cardinality({ k \in 1..Len(outqueue) : ~outqueue[k].ok })

\* In a state: a failed task is not in the workers' queue and was taken
\* once; while a failure is on its way create_webdataset has not returned;
\* when it has raised, the pool is terminated, not every task was counted
\* and a shard is missing or cut short; when it has returned, none is.
C11_State ==
    /\ \A i \in FailedTasks :
          /\ CountIn(inqueue, i) = 0
          /\ taken[i + 1] = 1
          /\ \A w \in Holders(i) : ~worker[w].ok
    /\ FailedTasks # {} => main \in {"iterate", "raised"}
    /\ main = "raised" =>
          /\ pool = "terminated"
          /\ iter_index < Len(shard_tasks)
          /\ pbar.n < total_shards
          /\ \E i \in TaskIds :
                TaskPath(i) \notin Produced
                    \/ fs[TaskPath(i)].records # ExpectedOfTask(i)
    /\ main = "returned" =>
          \A i \in TaskIds :
              /\ TaskPath(i) \in Produced
              /\ fs[TaskPath(i)].finalized
              /\ fs[TaskPath(i)].records = ExpectedOfTask(i)

\* In a step: a failed task is not taken again, a failure leaves the
\* results' queue only by being raised in the main process, which ends
\* create_webdataset and terminates the pool, and a run that has raised
\* stays failed.
C11_Step ==
    /\ \A i \in FailedTasks :
          /\ taken'[i + 1] = taken[i + 1]
          /\ CountIn(inqueue', i) = 0
          /\ \A w \in DOMAIN worker' :
                (worker'[w].pc # "idle" /\ worker'[w].i = i) =>
                    (w \in Holders(i) /\ ~worker'[w].ok)
    /\ FailuresQueued' < FailuresQueued =>
          /\ main = "iterate"
          /\ main' = "raised"
          /\ pool' = "terminated"
    /\ main = "raised" => main' = "raised"

\* C11: a task that failed with a write or I/O fault is never dispatched
\* again; its failure, once reported to the main process, is raised out of
\* create_webdataset, so that the run ends as failed; and the run never
\* returns normally with a shard missing.
C11_FaultPropagates ==
    /\ []C11_State
    /\ [][C11_Step]_vars
    /\ (FailuresQueued > 0) ~> (main = "raised")

\* Two tasks, one completed and counted, the other failed in sink.write:
\* create_webdataset has raised with the failed task's shard cut short.
C11_Witness ==
    /\ main = "raised"
    /\ pool = "terminated"
    /\ Len(shard_tasks) = 2
    /\ iter_index = 1
    /\ \E i \in TaskIds :
          /\ taken[i + 1] = 1
          /\ TaskPath(i) \in Produced
          /\ fs[TaskPath(i)].finalized
          /\ fs[TaskPath(i)].records # ExpectedOfTask(i)


\* No shard work has been done: nothing is planned, no pool and no worker
\* exist, the queues are empty and the output directory is as it was.
NoShardWork ==
    /\ total_shards = 0
    /\ shard_tasks = <<>>
    /\ pool = "none"
    /\ worker = <<>>
    /\ inqueue = <<>>
    /\ outqueue = <<>>
    /\ taken = <<>>
    /\ pbar.n = 0
    /\ Produced = {}
    /\ fs = PriorDir(shard_start_idx)

\* The load of lines 124-134 has succeeded.
Loaded == main \in {"start", "planned", "iterate", "returned", "raised"}

\* In a step: the exit with status 1 is taken from the load and is final,
\* and whatever plans, starts the pool, dispatches a task or touches a
\* file happens after the load has succeeded.
C12_Step ==
    /\ main' = "exit1" => main \in {"load", "exit1"}
    /\ main = "exit1" => vars' = vars
    /\ (\/ shard_tasks' # shard_tasks
        \/ pool' # pool
        \/ worker' # worker
        \/ inqueue' # inqueue
        \/ taken' # taken
        \/ fs' # fs) => (Loaded /\ Loaded')

\* C12: when the load fails the process exits with status 1 and no shard
\* work has started or ever starts: no task is planned or dispatched, no
\* pool is started, no shard file is created; and a task is dispatched
\* only after the load has succeeded.
C12_LoadFailureStopsBeforeWork ==
    /\ [](main \in {"load", "exit1"} => NoShardWork)
    /\ [](pool # "none" => Loaded)
    /\ [][C12_Step]_vars

\* The load of a dataset of two rows has failed next to the shards of an
\* earlier run, which are as they were.
C12_Witness ==
    /\ main = "exit1"
    /\ Len(dataset) = 2
    /\ shard_start_idx = 99999
    /\ DOMAIN fs # {}
    /\ NoShardWork


\* The tasks whose shard file has been closed by its writer.
ClosedTasks ==
    { i \in TaskIds : TaskPath(i) \in Produced /\ fs[TaskPath(i)].finalized }

\* The main process receives the completion of a task.
CompletionReceived ==
    /\ main = "iterate"
    /\ outqueue # <<>>
    /\ Head(outqueue).ok
    /\ outqueue' = Tail(outqueue)

\* In a state: the count is at most the number of closed shards and at
\* most total_shards, and it is total_shards after the return.
C13_State ==
    /\ pbar.n >= 0
    /\ pbar.n <= Cardinality(ClosedTasks)
    /\ pbar.n <= total_shards
    /\ pool # "none" => pbar.total = total_shards
    /\ main = "returned" => pbar.n = total_shards

\* In a step: the count stays or grows by one, and it grows exactly when a
\* completion is received.
C13_Step ==
    /\ pbar'.n \in {pbar.n, pbar.n + 1}
    /\ (pbar'.n = pbar.n + 1) <=> CompletionReceived

\* C13: the progress count never decreases, grows by exactly one for each
\* completion the main process receives, is always at most the number of
\* tasks whose shard is closed and at most total_shards, and is
\* total_shards when create_webdataset returns, in whatever order the
\* workers complete.
C13_ProgressCount == []C13_State /\ [][C13_Step]_vars

\* The second task of three completed first and was counted while the
\* first is still being written.
C13_Witness ==
    /\ main = "iterate"
    /\ Len(shard_tasks) = 3
    /\ pbar.n = 1
    /\ pbar.total = 3
    /\ ClosedTasks = {1}
    /\ Holders(0) # {}


\* The run has ended: create_webdataset returned or raised, or the script
\* exited after a failed load.
Ended == main \in {"returned", "raised", "exit1"}

\* C14: every run ends: once the tasks are dispatched either all of them
\* complete and create_webdataset returns, or a fault aborts the run; in
\* no reachable state is the run unfinished with no process able to take a
\* step, the main process waiting for a result that will never come.
C14_RunEnds == Ended \/ ENABLED Next


\* The workers that are processing a task.
Busy == { w \in DOMAIN worker : worker[w].pc # "idle" }

\* The tasks that are being processed.
InProgress == { worker[w].i : w \in Busy }

\* The workers whose state a step changes, and the paths whose file it
\* creates or changes.
WorkersChanged == { w \in DOMAIN worker : worker'[w] # worker[w] }
PathsChanged ==
    { p \in DOMAIN fs' : p \notin DOMAIN fs \/ fs'[p] # fs[p] }

\* The path of the shard of the task worker w is processing, or takes in
\* this step.
OwnPath(w) ==
    ShardPath(output_dir, IF worker[w].pc = "idle"
                          THEN worker'[w].shard_idx
                          ELSE worker[w].shard_idx)

\* A step of the pool's workers, not of the main process.
ByWorker == pool = "running" /\ main' = main /\ iter_index' = iter_index

\* In a state: at most num_proc workers are busy and at most num_proc
\* tasks are in progress, each in one worker, with at most num_proc shards
\* open.
C15_State ==
    /\ Cardinality(Busy) <= num_proc
    /\ Cardinality(InProgress) <= num_proc
    /\ Cardinality(InProgress) = Cardinality(Busy)
    /\ Cardinality({ p \in DOMAIN fs : fs[p].open }) <= num_proc

\* In a step: the dataset is only read; a step of a worker changes the
\* state of that worker alone and no file but the shard of its own task.
C15_Step ==
    /\ dataset' = dataset
    /\ (ByWorker /\ DOMAIN worker' = DOMAIN worker) =>
          /\ Cardinality(WorkersChanged) <= 1
          /\ PathsChanged # {} => WorkersChanged # {}
          /\ \A w \in WorkersChanged :
                /\ \A v \in DOMAIN worker \ {w} : worker'[v] = worker[v]
                /\ PathsChanged \subseteq {OwnPath(w)}
                /\ \A v \in Busy \ {w} :
                       ShardPath(output_dir, worker[v].shard_idx)
                           \notin PathsChanged

\* C15: at most num_proc tasks are processed at the same time, and the
\* workers share nothing but the dataset, which they only read: a
\* worker's step changes no other worker's task state and no other
\* worker's shard file.
C15_BoundedIsolatedWorkers == []C15_State /\ [][C15_Step]_vars

\* Two workers of a pool of two are each writing the shard of its own
\* task, while a third task waits.
C15_Witness ==
    /\ num_proc = 2
    /\ Cardinality(Busy) = 2
    /\ Cardinality(InProgress) = 2
    /\ inqueue # <<>>
    /\ \A w \in Busy :
          /\ worker[w].pc = "loop"
          /\ fs[ShardPath(output_dir, worker[w].shard_idx)].open


\* The paths of the shards with index in [K, K + ceil(N/S)).
RangePaths ==
    { ExpectedName(n) :
        n \in shard_start_idx ..
              (shard_start_idx + Ceil(Len(dataset), shard_size) - 1) }

\* The files that were in the output directory before the run.
Before == PriorDir(shard_start_idx)

\* The paths whose file the run has created or changed so far, given the
\* files that were there before.
TouchedSince(before) ==
    { p \in DOMAIN fs : p \notin DOMAIN before \/ fs[p] # before[p] }

Touched == TouchedSince(Before)

\* C16: a run with shard_start_idx = K over N samples creates or
\* overwrites only shard files with index in [K, K + ceil(N/S)); every
\* file that was in the output directory before the run under another
\* index is still there and unchanged, in every state of the run: the
\* shard at K - 1 of the run before is never overwritten.
C16_OnlyOwnRangeTouched ==
    LET before == Before
        range == RangePaths
        outside == DOMAIN before \ range
    IN /\ TouchedSince(before) \subseteq range
       /\ \A p \in outside : p \in DOMAIN fs /\ fs[p] = before[p]
       /\ shard_start_idx > 0 =>
             /\ ExpectedName(shard_start_idx - 1) \in outside
             /\ fs[ExpectedName(shard_start_idx - 1)] = PriorFile

\* A run of two shards from index 99999 has returned: it has overwritten
\* the shard it found at index 100000 and written shard 99999; the shard
\* it found at 99998 is as it was.
C16_Witness ==
    /\ main = "returned"
    /\ shard_start_idx = 99999
    /\ total_shards = 2
    /\ Touched = {ExpectedName(99999), ExpectedName(100000)}
    /\ ExpectedName(100000) \in DOMAIN Before
    /\ ~fs[ExpectedName(100000)].prior
    /\ fs[ExpectedName(99998)] = PriorFile


\* The diagnostic for the sample at position j of a slice.
ExpectedMessage(j) ==
    "Skipping sample sample" \o SixDigits(j)
        \o " due to NaN or Inf in input_features."

\* How many samples of the dataset have a non-finite input_features and
\* the position j in the slice they belong to.
InvalidAt(j) ==
    Cardinality({ g \in 0..(Len(dataset) - 1) :
                    /\ g % shard_size = j
                    /\ ~FiniteArray(dataset[g + 1].input_features) })

\* The diagnostics of a whole run, as a bag: one for each invalid sample.
ExpectedSkips ==
    LET positions == { j \in 0..(shard_size - 1) : InvalidAt(j) > 0 }
    IN [m \in { ExpectedMessage(j) : j \in positions } |->
           InvalidAt(CHOOSE j \in positions : ExpectedMessage(j) = m)]

\* The workers that handle one sample of their slice in this step.
Handling ==
    { w \in DOMAIN worker :
        /\ worker[w].pc = "loop"
        /\ worker'[w].pc = "loop"
        /\ worker'[w].sample_idx = worker[w].sample_idx + 1 }

\* The sample worker w is at.
CurrentSample(w) == worker[w].shard_samples[worker[w].sample_idx + 1]

\* In a state: every diagnostic printed so far is the diagnostic of an
\* invalid sample, each at most once; after the return there is exactly
\* one for each, and every shard holds its slice less the skipped samples,
\* those after a skipped sample included.
C17_State ==
    /\ stdout \sqsubseteq ExpectedSkips
    /\ main = "returned" =>
          /\ stdout = ExpectedSkips
          /\ \A i \in TaskIds :
                /\ Len(fs[TaskPath(i)].records) =
                       SliceCount(i) - Cardinality(NonFiniteOfTask(i))
                /\ fs[TaskPath(i)].records = ExpectedOfTask(i)

\* In a step: the worker that handles an invalid sample prints its
\* diagnostic once, writes nothing and goes on to the next sample of the
\* slice; the worker that handles a valid sample writes one record and
\* prints nothing; nothing else prints; an invalid sample never fails the
\* task, and it changes no other worker.
C17_Step ==
    /\ stdout' # stdout => Handling # {}
    /\ \A w \in Handling :
          LET shard_path == ShardPath(output_dir, worker[w].shard_idx)
              message == ExpectedMessage(worker[w].sample_idx)
          IN IF FiniteArray(CurrentSample(w).input_features)
             THEN /\ stdout' = stdout
                  /\ Len(fs'[shard_path].records) =
                         Len(fs[shard_path].records) + 1
             ELSE /\ stdout' = stdout (+) SetToBag({message})
                  /\ fs' = fs
                  /\ \A v \in DOMAIN worker \ {w} : worker'[v] = worker[v]
                  /\ inqueue' = inqueue
    /\ \A w \in DOMAIN worker :
          (/\ worker[w].pc = "loop"
           /\ worker[w].sample_idx < Len(worker[w].shard_samples)
           /\ ~FiniteArray(CurrentSample(w).input_features)
           /\ worker'[w] # worker[w]) =>
              (w \in Handling \/ worker'[w].pc = "idle")

\* C17: an invalid sample is local to that sample: save_shard prints one
\* diagnostic that names the sample's key in its shard for each sample
\* with a non-finite input_features value, and none for a sample it
\* writes; the shard then holds its slice less the skipped samples; the
\* samples after it in the shard and the other tasks are processed.
C17_InvalidSampleIsLocal == []C17_State /\ [][C17_Step]_vars

\* A run of two shards has returned whose first shard starts with an
\* invalid sample, followed by a valid one: the one diagnostic names
\* sample000000, the first shard holds the record of sample000001 alone
\* and the second shard was written too.
C17_Witness ==
    /\ main = "returned"
    /\ shard_size = 2
    /\ Len(dataset) = 3
    /\ NonFiniteOfTask(0) = {0}
    /\ NonFiniteOfTask(1) = {}
    /\ stdout = SetToBag({ExpectedMessage(0)})
    /\ Len(fs[TaskPath(0)].records) = 1
    /\ fs[TaskPath(0)].records[1].key = "sample000001"
    /\ Len(fs[TaskPath(1)].records) = 1


\* The tasks every sample of whose slice is invalid.
AllSkippedTasks ==
    { i \in TaskIds : Cardinality(NonFiniteOfTask(i)) = SliceCount(i) }

\* C18: every processed task leaves exactly one shard file, whether or not
\* a sample of it survives: a task all of whose samples are skipped
\* completes normally and is counted, and its shard is there, closed, with
\* no record; a run that returns has written ceil(N/S) shard files however
\* many samples were skipped.
C18_EmptyShardStillWritten ==
    LET path == [i \in TaskIds |-> TaskPath(i)]
        skipped == AllSkippedTasks
        written == Produced
    IN /\ \A i \in skipped :
             /\ \A w \in Holders(i) :
                   worker[w].pc = "put" =>
                       (worker[w].ok <=> path[i] \in written)
             /\ \A k \in 1..Len(outqueue) :
                   outqueue[k].i = i =>
                       (outqueue[k].ok <=> path[i] \in written)
             /\ path[i] \in written => fs[path[i]].records = <<>>
       /\ main = "returned" =>
             /\ Cardinality(written) = Ceil(Len(dataset), shard_size)
             /\ pbar.n = Ceil(Len(dataset), shard_size)
             /\ \A i \in TaskIds :
                   /\ path[i] \in written
                   /\ fs[path[i]].finalized
             /\ \A i \in skipped : fs[path[i]].records = <<>>

\* A run of two shards has returned and counted both; every sample of the
\* second was skipped, and its shard is there, closed and empty, next to
\* the first, which holds a record.
C18_Witness ==
    /\ main = "returned"
    /\ Len(shard_tasks) = 2
    /\ pbar.n = 2
    /\ AllSkippedTasks = {1}
    /\ Cardinality(Produced) = 2
    /\ fs[TaskPath(1)].finalized
    /\ fs[TaskPath(1)].records = <<>>
    /\ fs[TaskPath(0)].records # <<>>

=============================================================================
